---- MODULE Spec2Model ----
(***************************************************************************)
(* Clash Royale deck association analysis: the three batch scripts         *)
(*   step2_clean.py  (restructurer), aaLosers.py (rule miner) and          *)
(*   merge.py        (merger),                                             *)
(* each modelled as a sequential program whose position is pc.             *)
(*                                                                         *)
(* Text is a sequence of one-character strings.  Supports are kept as      *)
(* counts over the N rows of the one-hot matrix, thresholds as fractions   *)
(* <<numerator, denominator>>, and every comparison of fractions is done   *)
(* by cross-multiplication (floating-point rounding is not modelled).      *)
(***************************************************************************)
EXTENDS Integers, Sequences, FiniteSets, TLC

VARIABLES
    pc,                  \* position of the running script
    error,               \* the exception that ended the run, or "none"
    \* ---- aaLosers.py
    args,                \* parsed command line
    raw_df,              \* the input table
    trans_cards,         \* parse_deck of every player_deck cell
    trans_with_outcome,  \* the transactions
    X,                   \* the one-hot matrix
    itemsets_all,        \* the itemset table
    rules,               \* the rule table (Unbound until line 111 assigns it)
    files,               \* the CSV files written so far
    \* ---- parse_deck applied on its own
    cell, parsed, reparsed, roundtrip,
    \* ---- step2_clean.py
    df, rows, idx, player_num, restructured_df,
    \* ---- merge.py
    df_loss, df_win, df_master

minerVars == <<args, raw_df, trans_cards, trans_with_outcome, X, itemsets_all, rules, files>>
deckVars  == <<cell, parsed, reparsed, roundtrip>>
cleanVars == <<df, rows, idx, player_num, restructured_df>>
mergeVars == <<df_loss, df_win, df_master>>
vars == <<pc, error, minerVars, deckVars, cleanVars, mergeVars>>

\* A name that has no value yet, and a missing value (NaN / None).
Unbound == [unbound |-> TRUE]
NaN == [nan |-> TRUE]

-----------------------------------------------------------------------------
(* Sequences and text                                                      *)


Range(s) == {s[i] : i \in 1..Len(s)}

Map(s, Op(_)) == [i \in 1..Len(s) |-> Op(s[i])]

\* the sequences over S of length at most n
SeqsUpTo(S, n) == UNION {[1..k -> S] : k \in 0..n}

WS == {" "}
QUOTES == {"'", "\""}
BRACKETS == {"[", "]"}

RECURSIVE lstrip(_, _)
lstrip(s, cs) == IF s # <<>> /\ Head(s) \in cs THEN lstrip(Tail(s), cs) ELSE s

RECURSIVE rstrip(_, _)
rstrip(s, cs) ==
    IF s # <<>> /\ s[Len(s)] \in cs THEN rstrip(SubSeq(s, 1, Len(s) - 1), cs) ELSE s

\* str.strip(chars)
strip(s, cs) == rstrip(lstrip(s, cs), cs)

\* str.split(sep) for a one-character separator
RECURSIVE split(_, _)
split(s, sep) ==
    IF \E i \in 1..Len(s) : s[i] = sep
    THEN LET i == CHOOSE j \in 1..Len(s) : s[j] = sep /\ \A k \in 1..(j - 1) : s[k] # sep
         IN <<SubSeq(s, 1, i - 1)>> \o split(SubSeq(s, i + 1, Len(s)), sep)
    ELSE <<s>>

\* sep.join(parts)
RECURSIVE join(_, _)
join(parts, sep) ==
    IF parts = <<>> THEN <<>>
    ELSE IF Len(parts) = 1 THEN parts[1]
    ELSE parts[1] \o sep \o join(Tail(parts), sep)

\* the split of s at the commas that stand outside a quoted string; q is the
\* quote that opened the string being read, or "" outside a string
RECURSIVE splitTop(_, _, _)
splitTop(s, q, cur) ==
    IF s = <<>> THEN <<cur>>
    ELSE IF q = "" /\ Head(s) \in QUOTES THEN splitTop(Tail(s), Head(s), Append(cur, Head(s)))
    ELSE IF q # "" /\ Head(s) = q THEN splitTop(Tail(s), "", Append(cur, Head(s)))
    ELSE IF q = "" /\ Head(s) = "," THEN <<cur>> \o splitTop(Tail(s), "", <<>>)
    ELSE splitTop(Tail(s), q, Append(cur, Head(s)))

\* a quoted string literal without escapes
IsStrLit(t) ==
    /\ Len(t) >= 2
    /\ t[1] \in QUOTES
    /\ t[Len(t)] = t[1]
    /\ \A i \in 2..(Len(t) - 1) : t[i] # t[1]

StrLitVal(t) == SubSeq(t, 2, Len(t) - 1)

\* The elements between the brackets of a display: string literals separated
\* by commas, with an optional trailing comma.
Elements(inner) ==
    LET pieces == Map(splitTop(inner, "", <<>>), LAMBDA p : strip(p, WS))
        trailing == Len(pieces) >= 2 /\ pieces[Len(pieces)] = <<>>
        elems == IF trailing THEN SubSeq(pieces, 1, Len(pieces) - 1) ELSE pieces
    IN IF strip(inner, WS) = <<>>
       THEN [ok |-> TRUE, trailing |-> FALSE, val |-> <<>>]
       ELSE IF \A i \in 1..Len(elems) : IsStrLit(elems[i])
       THEN [ok |-> TRUE, trailing |-> trailing, val |-> Map(elems, StrLitVal)]
       ELSE [ok |-> FALSE, trailing |-> FALSE, val |-> <<>>]

Raised(exc) == [raised |-> TRUE, exc |-> exc]
Returned(type, val) == [raised |-> FALSE, type |-> type, val |-> val]

\* ast.literal_eval on the text of a cell: a list or tuple display of string
\* literals (a tuple with or without its parentheses), a string literal, or an
\* exception (SyntaxError / ValueError) for text that is no literal, such as
\* bare card names.  Displays that nest, adjacent literals and prefixed
\* literals are outside the texts the model feeds it.
literal_eval(s) ==
    LET t == strip(s, WS)
        inner == SubSeq(t, 2, Len(t) - 1)
        el == Elements(inner)
        bare == Elements(t)
    IN IF IsStrLit(t) THEN Returned("str", StrLitVal(t))
       ELSE IF Len(t) >= 2 /\ t[1] = "[" /\ t[Len(t)] = "]"
       THEN IF el.ok THEN Returned("list", el.val) ELSE Raised("ValueError")
       ELSE IF Len(t) >= 2 /\ t[1] = "(" /\ t[Len(t)] = ")"
       THEN IF ~el.ok THEN Raised("ValueError")
            ELSE IF Len(el.val) = 1 /\ ~el.trailing THEN Returned("str", el.val[1])
            ELSE Returned("tuple", el.val)
       ELSE IF bare.ok /\ bare.val # <<>> /\ (Len(bare.val) >= 2 \/ bare.trailing)
       THEN Returned("tuple", bare.val)
       ELSE Raised("ValueError")

\* repr(x) of a string: in single quotes, or in double quotes when it holds
\* a single quote (and no double quote)
repr_str(x) ==
    LET q == IF "'" \in Range(x) THEN "\"" ELSE "'"
    IN <<q>> \o x \o <<q>>

\* str(list) of a list of strings: "['a', 'b']"
repr_list(items) == <<"[">> \o join(Map(items, repr_str), <<",", " ">>) \o <<"]">>

\* str(tuple): "('a', 'b')", "('a',)", "()"
repr_tuple(items) ==
    <<"(">> \o join(Map(items, repr_str), <<",", " ">>)
        \o (IF Len(items) = 1 THEN <<",">> ELSE <<>>) \o <<")">>

-----------------------------------------------------------------------------
(* aaLosers.py: parse_deck                                                 *)

\* A cell is NaN, a Python list of strings, or text.
ListCell(items) == [list |-> items]
TextCell(s) == [text |-> s]
IsList(c) == "list" \in DOMAIN c

\* lines 44 and 46: the comma split of the text
comma_split(s) ==
    LET parts == split(strip(s, BRACKETS), ",")
        kept == SelectSeq(parts, LAMBDA c : strip(c, WS) # <<>>)
    IN Map(kept, LAMBDA c : strip(strip(c, WS), QUOTES))

strip_each(items) == Map(items, LAMBDA x : strip(x, WS))

\* `if pd.isna(cell):` (line 35).  pd.isna of a list is an array with one
\* entry per element, and the truth value of an array of two or more entries
\* is a ValueError; that of an empty array is False or a ValueError, by the
\* NumPy release.  The outcomes are "true", "false" and "raise".
isna_test(c) ==
    IF c = NaN THEN {"true"}
    ELSE IF IsList(c)
    THEN IF Len(c.list) >= 2 THEN {"raise"}
         ELSE IF Len(c.list) = 0 THEN {"false", "raise"}
         ELSE {"false"}
    ELSE {"false"}

\* parse_deck(cell) once the test of line 35 came out as t
parse_deck_after(c, t) ==
    IF t = "raise" THEN Raised("ValueError")
    ELSE IF t = "true" THEN Returned("list", <<>>)
    ELSE IF IsList(c) THEN Returned("list", strip_each(c.list))
    ELSE LET ev == literal_eval(c.text)
         IN IF ~ev.raised /\ ev.type \in {"list", "tuple"}
            THEN Returned("list", strip_each(ev.val))
            ELSE Returned("list", comma_split(c.text))

\* the outcomes of parse_deck(cell)
parse_deck(c) == {parse_deck_after(c, t) : t \in isna_test(c)}

-----------------------------------------------------------------------------
(* Order of text, as Python compares str: by code point                    *)

Ascii == <<" ", "\"", "'", "(", ")", ",", "=", "C", "E", "L", "M", "N", "O", "S",
           "T", "U", "W", "[", "]", "a", "b", "c">>

Code(ch) == CHOOSE i \in 1..Len(Ascii) : Ascii[i] = ch

RECURSIVE TextLess(_, _)
TextLess(s, t) ==
    IF t = <<>> THEN FALSE
    ELSE IF s = <<>> THEN TRUE
    ELSE IF Head(s) = Head(t) THEN TextLess(Tail(s), Tail(t))
    ELSE Code(Head(s)) < Code(Head(t))

\* sorted(S) for a set of texts
RECURSIVE sorted(_)
sorted(S) ==
    IF S = {} THEN <<>>
    ELSE LET m == CHOOSE x \in S : \A y \in S \ {x} : TextLess(x, y)
         IN <<m>> \o sorted(S \ {m})

\* the orders in which the elements of a set can be listed
Orderings(S) == {s \in [1..Cardinality(S) -> S] : Range(s) = S}

-----------------------------------------------------------------------------
(* aaLosers.py: the rule miner                                             *)

OUTCOME_WIN == <<"O", "U", "T", "C", "O", "M", "E", "=", "W", "I", "N">>
OUTCOME_LOSS == <<"O", "U", "T", "C", "O", "M", "E", "=", "L", "O", "S", "S">>

Num(n) == [num |-> n]
IsNum(c) == "num" \in DOMAIN c

\* fractions, compared by cross-multiplication
Frac(n, d) == <<n, d>>
FracGe(p, q) == p[1] * q[2] >= q[1] * p[2]
FracEq(p, q) == p[1] * q[2] = q[1] * p[2]
FracGt(p, q) == p[1] * q[2] > q[1] * p[2]

\* list(dict.fromkeys([c for c in cards if c])) (lines 57, 168)
RECURSIVE unique_items(_, _)
unique_items(cards, seen) ==
    IF cards = <<>> THEN <<>>
    ELSE IF Head(cards) = <<>> \/ Head(cards) \in seen
    THEN unique_items(Tail(cards), seen)
    ELSE <<Head(cards)>> \o unique_items(Tail(cards), seen \cup {Head(cards)})

\* raw_df["winner"].fillna(0).astype(int) (line 54), for one cell
winner_int(w) == IF w = NaN THEN 0 ELSE w.num

\* lines 55-58, for one row
transaction(cards, w) ==
    Append(unique_items(cards, {}),
           IF winner_int(w) = 1 THEN OUTCOME_WIN ELSE OUTCOME_LOSS)

\* TransactionEncoder().fit(t).transform(t) as a frame (lines 64-66): the
\* columns are the sorted distinct items; a row is kept as the set of the
\* columns that are True in it.
one_hot(transactions) ==
    [columns |-> sorted(UNION {Range(transactions[i]) : i \in 1..Len(transactions)}),
     rows |-> Map(transactions, Range)]

\* the number of rows of X_df in which every item of s is present
count(X_df, s) == Cardinality({i \in 1..Len(X_df.rows) : s \subseteq X_df.rows[i]})

nrows(X_df) == Len(X_df.rows)

\* support, as a fraction of the rows
SupportOf(X_df, s) == Frac(count(X_df, s), nrows(X_df))

\* the column numbers of an itemset, ascending
RECURSIVE col_tuple(_, _)
col_tuple(columns, s) ==
    IF columns = <<>> THEN <<>>
    ELSE (IF columns[Len(columns)] \in s
          THEN Append(col_tuple(SubSeq(columns, 1, Len(columns) - 1), s), Len(columns))
          ELSE col_tuple(SubSeq(columns, 1, Len(columns) - 1), s))

RECURSIVE TupleLess(_, _)
TupleLess(s, t) ==
    IF t = <<>> THEN FALSE
    ELSE IF s = <<>> THEN TRUE
    ELSE IF Head(s) = Head(t) THEN TupleLess(Tail(s), Tail(t))
    ELSE Head(s) < Head(t)

\* apriori lists the itemsets level by level, each level in the order of
\* the column tuples
ItemsetBefore(columns, s, t) ==
    \/ Cardinality(s) < Cardinality(t)
    \/ Cardinality(s) = Cardinality(t)
         /\ TupleLess(col_tuple(columns, s), col_tuple(columns, t))

RECURSIVE itemset_rows(_, _, _)
itemset_rows(X_df, columns, S) ==
    IF S = {} THEN <<>>
    ELSE LET m == CHOOSE x \in S : \A y \in S \ {x} : ItemsetBefore(columns, x, y)
         IN <<[support |-> count(X_df, m), itemsets |-> m]>>
                \o itemset_rows(X_df, columns, S \ {m})

\* `while max_itemset and max_itemset < (max_len or float("inf"))`: level 1 is
\* always mined, max_len = 0 is "no limit".  0 stands for no limit here.
level_cap(max_len) == IF max_len = 0 THEN 0 ELSE IF max_len < 1 THEN 1 ELSE max_len

\* mlxtend apriori(X, min_support, use_colnames=True, max_len): every itemset
\* whose support reaches min_support, up to the level cap.  Supports are row
\* counts; the support is count / nrows.
apriori(X_df, min_support, max_len) ==
    LET cap == level_cap(max_len)
        frequent == {s \in SUBSET Range(X_df.columns) :
                        /\ s # {}
                        /\ cap = 0 \/ Cardinality(s) <= cap
                        /\ FracGe(SupportOf(X_df, s), min_support)}
    IN itemset_rows(X_df, X_df.columns, frequent)

\* the missing items when every itemset, whatever its length, counts as an
\* existing singleton
missing_singletons_any_length(itemsets_df) ==
    LET items_in_sets == UNION {itemsets_df[i].itemsets : i \in 1..Len(itemsets_df)}
        existing_singletons == UNION {itemsets_df[i].itemsets : i \in 1..Len(itemsets_df)}
    IN items_in_sets \ existing_singletons

\* lines 71-77 of ensure_singletons: the items without a singleton row
missing_singletons(itemsets_df) ==
    LET items_in_sets == UNION {itemsets_df[i].itemsets : i \in 1..Len(itemsets_df)}
        existing_singletons ==
            UNION {itemsets_df[i].itemsets :
                     i \in {j \in 1..Len(itemsets_df) : Cardinality(itemsets_df[j].itemsets) = 1}}
    IN items_in_sets \ existing_singletons

\* lines 79-87, with the missing items taken in the order `missing` (a list
\* built by iterating a set, so any order)
add_singletons(itemsets_df, X_df, missing) ==
    LET present == SelectSeq(missing, LAMBDA itm : itm \in Range(X_df.columns))
    IN itemsets_df \o Map(present, LAMBDA itm : [support |-> count(X_df, {itm}),
                                                itemsets |-> {itm}])

\* the tables ensure_singletons(itemsets_df, X_df) can return
ensure_singletons(itemsets_df, X_df) ==
    {add_singletons(itemsets_df, X_df, m) : m \in Orderings(missing_singletons(itemsets_df))}

\* frequent_items_dict[s] of association_rules: the support of the row that
\* holds itemset s
HasRow(itemsets_df, s) == \E i \in 1..Len(itemsets_df) : itemsets_df[i].itemsets = s

support_lookup(itemsets_df, s) ==
    LET i == CHOOSE j \in 1..Len(itemsets_df) :
                 /\ itemsets_df[j].itemsets = s
                 /\ \A k \in (j + 1)..Len(itemsets_df) : itemsets_df[k].itemsets # s
    IN itemsets_df[i].support

\* the rule antecedent => itemset \ antecedent of one row of the table
rule_of(itemsets_df, row, antecedent) ==
    [antecedents |-> antecedent,
     consequents |-> row.itemsets \ antecedent,
     support |-> row.support,
     antecedent_support |-> support_lookup(itemsets_df, antecedent),
     consequent_support |-> support_lookup(itemsets_df, row.itemsets \ antecedent)]

\* confidence = support / antecedent support; lift = confidence / consequent
\* support, with the supports as counts over n rows
confidence(r) == Frac(r.support, r.antecedent_support)
lift(r, n) == Frac(r.support * n, r.antecedent_support * r.consequent_support)

\* the (row, antecedent) pairs association_rules visits: every split of every
\* itemset of two or more items
rule_splits(itemsets_df) ==
    {<<i, a>> \in (1..Len(itemsets_df)) \X (SUBSET UNION {itemsets_df[j].itemsets : j \in 1..Len(itemsets_df)}) :
        /\ a # {}
        /\ a \subseteq itemsets_df[i].itemsets
        /\ a # itemsets_df[i].itemsets}

\* mlxtend association_rules(df, metric="confidence", min_threshold): a
\* ValueError for an empty table, a KeyError when the support of an antecedent
\* or consequent is not in the table, else the rules whose confidence reaches
\* the threshold.  The rule table is kept as a set: its row order is only
\* fixed by the sort of line 155.
association_rules(itemsets_df, min_threshold) ==
    LET splits == rule_splits(itemsets_df)
        known(sp) == /\ HasRow(itemsets_df, sp[2])
                     /\ HasRow(itemsets_df, itemsets_df[sp[1]].itemsets \ sp[2])
    IN IF itemsets_df = <<>> THEN Raised("ValueError")
       ELSE IF \E sp \in splits : ~known(sp) THEN Raised("KeyError")
       ELSE Returned("rules",
                {r \in {rule_of(itemsets_df, itemsets_df[sp[1]], sp[2]) : sp \in splits} :
                    FracGe(confidence(r), min_threshold)})

\* a filter that asks whether OUTCOME=LOSS is among the consequents
consequent_filter_contains(rs) == {r \in rs : OUTCOME_LOSS \in r.consequents}

\* lines 109 and 114: rules[rules["consequents"].apply(lambda s: s == {"OUTCOME=LOSS"})]
consequent_filter(rs) == {r \in rs : r.consequents = {OUTCOME_LOSS}}

Max(a, b) == IF a >= b THEN a ELSE b

\* a lower bound that is one too small
min_ant_off_by_one(a) == Max(1, a.min_cardinality - 2)

\* lines 118-121
min_ant(a) == Max(1, a.min_cardinality - 1)
max_ant(a) == Max(1, a.max_cardinality - 1)
antecedent_len_filter(rs, a) ==
    {r \in rs : /\ Cardinality(r.antecedents) >= min_ant(a)
                /\ Cardinality(r.antecedents) <= max_ant(a)}

\* lines 123-124
lift_filter(rs, a, n) == {r \in rs : FracGe(lift(r, n), a.min_lift)}

\* ", ".join(sorted(s)) (lines 128-129, 184)
items_str(s) == join(sorted(s), <<",", " ">>)

\* a row of rules_predicting_LOSS.csv (lines 127-155; leverage and
\* conviction are not modelled)
rule_row(r, n) ==
    [antecedents_str |-> items_str(r.antecedents),
     consequents_str |-> items_str(r.consequents),
     support |-> Frac(r.support, n),
     confidence |-> confidence(r),
     lift |-> lift(r, n),
     antecedent_support |-> Frac(r.antecedent_support, n),
     consequent_support |-> Frac(r.consequent_support, n)]

\* sort_values(["lift", "confidence", "support"], ascending=False): row p may
\* stand before row q
RuleRowBefore(p, q) ==
    \/ FracGt(p.lift, q.lift)
    \/ FracEq(p.lift, q.lift) /\ FracGt(p.confidence, q.confidence)
    \/ FracEq(p.lift, q.lift) /\ FracEq(p.confidence, q.confidence)
         /\ FracGe(p.support, q.support)

\* the tables line 155 can produce from the rule set (ties in either order)
sorted_rules(rs, n) ==
    {Map(o, LAMBDA r : rule_row(r, n)) : o \in
        {o \in Orderings(rs) :
            \A i \in 1..(Len(o) - 1) : RuleRowBefore(rule_row(o[i], n), rule_row(o[i + 1], n))}}

RULES_CSV == "rules_predicting_LOSS.csv"
ITEMSETS_CSV == "frequent_itemsets_losers.csv"

\* lines 167-168: the de-duplicated decks of the rows whose winner is 0
trans_win(frame) ==
    Map(SelectSeq([i \in 1..Len(frame.winner) |->
                      IF winner_int(frame.winner[i]) = 0 THEN frame.player_deck[i] ELSE Unbound],
                  LAMBDA c : c # Unbound),
        LAMBDA c : unique_items((CHOOSE r \in parse_deck(c) : TRUE).val, {}))

\* lines 180-184: the rows of itemsets_win within the cardinality range, over
\* n transactions
loser_rows(itemsets_win, n, a) ==
    {[items_str |-> items_str(itemsets_win[i].itemsets),
      support |-> Frac(itemsets_win[i].support, n),
      length |-> Cardinality(itemsets_win[i].itemsets)] :
        i \in {k \in 1..Len(itemsets_win) :
                 /\ Cardinality(itemsets_win[k].itemsets) >= a.min_cardinality
                 /\ Cardinality(itemsets_win[k].itemsets) <= a.max_cardinality}}

\* sort_values(["length", "support"], ascending=False): row p may stand
\* before row q
ItemsetRowBefore(p, q) ==
    \/ p.length > q.length
    \/ p.length = q.length /\ FracGe(p.support, q.support)

\* lines 167-185: the tables of the losers' itemsets line 185 can produce
loser_itemsets(frame, a) ==
    UNION {{o \in Orderings(out) : \A i \in 1..(Len(o) - 1) : ItemsetRowBefore(o[i], o[i + 1])} :
             out \in {loser_rows(apriori(X_win, a.min_support, a.max_cardinality), nrows(X_win), a) :
                        X_win \in {one_hot(trans_win(frame))}}}

REQUIRED_COLUMNS == {"player_deck", "winner"}

fail(exc) == pc' = "failed" /\ error' = exc
goto(label) == pc' = label /\ error' = error

\* lines 29-31
LoadAndValidate ==
    /\ pc = "load"
    /\ IF REQUIRED_COLUMNS \subseteq raw_df.columns
       THEN goto("parse_decks")
       ELSE fail("ValueError: CSV must contain columns")
    /\ UNCHANGED <<minerVars, deckVars, cleanVars, mergeVars>>

\* line 49
ParseDecks ==
    /\ pc = "parse_decks"
    /\ trans_cards' = Map(raw_df.player_deck, LAMBDA c : (CHOOSE r \in parse_deck(c) : TRUE).val)
    /\ goto("transactions")
    /\ UNCHANGED <<args, raw_df, trans_with_outcome, X, itemsets_all, rules, files,
                   deckVars, cleanVars, mergeVars>>

\* lines 53-59; astype(int) raises on a winner cell that is no number
BuildTransactions ==
    /\ pc = "transactions"
    /\ IF \A i \in 1..Len(raw_df.winner) : raw_df.winner[i] = NaN \/ IsNum(raw_df.winner[i])
       THEN /\ trans_with_outcome' =
                  [i \in 1..Len(trans_cards) |-> transaction(trans_cards[i], raw_df.winner[i])]
            /\ goto("one_hot")
       ELSE /\ fail("ValueError: invalid literal for int()")
            /\ UNCHANGED trans_with_outcome
    /\ UNCHANGED <<args, raw_df, trans_cards, X, itemsets_all, rules, files,
                   deckVars, cleanVars, mergeVars>>

\* lines 64-66
OneHotEncode ==
    /\ pc = "one_hot"
    /\ X' = one_hot(trans_with_outcome)
    /\ goto("apriori")
    /\ UNCHANGED <<args, raw_df, trans_cards, trans_with_outcome, itemsets_all, rules, files,
                   deckVars, cleanVars, mergeVars>>

\* lines 92-98
MineItemsets ==
    /\ pc = "apriori"
    /\ itemsets_all' = apriori(X, args.min_support, args.max_cardinality)
    /\ goto("ensure_singletons")
    /\ UNCHANGED <<args, raw_df, trans_cards, trans_with_outcome, X, rules, files,
                   deckVars, cleanVars, mergeVars>>

\* lines 100-101
EnsureSingletons ==
    /\ pc = "ensure_singletons"
    /\ itemsets_all' \in ensure_singletons(itemsets_all, X)
    /\ goto("line_109")
    /\ UNCHANGED <<args, raw_df, trans_cards, trans_with_outcome, X, rules, files,
                   deckVars, cleanVars, mergeVars>>

\* line 109: `rules = rules[...]` reads the name rules, which line 111 is the
\* first to bind
FilterBeforeRules ==
    /\ pc = "line_109"
    /\ IF rules = Unbound
       THEN fail("NameError: name 'rules' is not defined") /\ UNCHANGED rules
       ELSE rules' = consequent_filter(rules) /\ goto("association_rules")
    /\ UNCHANGED <<args, raw_df, trans_cards, trans_with_outcome, X, itemsets_all, files,
                   deckVars, cleanVars, mergeVars>>

\* line 111
GenerateRules ==
    /\ pc = "association_rules"
    /\ LET res == association_rules(itemsets_all, args.min_confidence)
       IN IF res.raised
          THEN fail(res.exc) /\ UNCHANGED rules
          ELSE rules' = res.val /\ goto("line_114")
    /\ UNCHANGED <<args, raw_df, trans_cards, trans_with_outcome, X, itemsets_all, files,
                   deckVars, cleanVars, mergeVars>>

\* line 114.  When line 111 produced no rule the mask is an empty Series of
\* dtype object, which pandas may take for a list of column labels; the frame
\* then has no column left and line 118 ends in a KeyError.  Both outcomes
\* are kept for the empty rule table.
FilterConsequent ==
    /\ pc = "line_114"
    /\ \/ rules' = consequent_filter(rules) /\ goto("antecedent_len")
       \/ rules = {} /\ fail("KeyError: 'antecedents'") /\ UNCHANGED rules
    /\ UNCHANGED <<args, raw_df, trans_cards, trans_with_outcome, X, itemsets_all, files,
                   deckVars, cleanVars, mergeVars>>

\* lines 118-121
FilterAntecedentLen ==
    /\ pc = "antecedent_len"
    /\ rules' = antecedent_len_filter(rules, args)
    /\ goto("min_lift")
    /\ UNCHANGED <<args, raw_df, trans_cards, trans_with_outcome, X, itemsets_all, files,
                   deckVars, cleanVars, mergeVars>>

\* lines 123-124
FilterLift ==
    /\ pc = "min_lift"
    /\ rules' = lift_filter(rules, args, nrows(X))
    /\ goto("write_rules")
    /\ UNCHANGED <<args, raw_df, trans_cards, trans_with_outcome, X, itemsets_all, files,
                   deckVars, cleanVars, mergeVars>>

\* lines 127-158
WriteRules ==
    /\ pc = "write_rules"
    /\ \E out \in sorted_rules(rules, nrows(X)) : files' = files @@ (RULES_CSV :> out)
    /\ goto("losers")
    /\ UNCHANGED <<args, raw_df, trans_cards, trans_with_outcome, X, itemsets_all, rules,
                   deckVars, cleanVars, mergeVars>>

\* lines 167-194
WriteLoserItemsets ==
    /\ pc = "losers"
    /\ \E out \in loser_itemsets(raw_df, args) : files' = files @@ (ITEMSETS_CSV :> out)
    /\ goto("done")
    /\ UNCHANGED <<args, raw_df, trans_cards, trans_with_outcome, X, itemsets_all, rules,
                   deckVars, cleanVars, mergeVars>>

-----------------------------------------------------------------------------
(* Inputs of the rule miner                                                *)

MaxRows == 2

CARD_A == <<"a">>
CARD_B == <<"b">>

\* player_deck cells as read_csv delivers them: empty, a stringified list,
\* or free text
DeckCells ==
    {NaN,
     TextCell(repr_list(<<CARD_A>>)),
     TextCell(repr_list(<<CARD_A, CARD_B>>)),
     TextCell(<<"b", ",", " ", "b">>)}

\* winner cells: empty, 0 or 1
WinnerCells == {NaN, Num(0), Num(1)}

Frame(cols, decks, winners) == [columns |-> cols, player_deck |-> decks, winner |-> winners]

FullFrames(winnerCells) ==
    UNION {{Frame(REQUIRED_COLUMNS, d, w) : d \in [1..n -> DeckCells], w \in [1..n -> winnerCells]}
             : n \in 1..MaxRows}

\* the table of the worked example: 3 x [a, b] lost, 7 x [a] won
ExampleFrame ==
    Frame(REQUIRED_COLUMNS,
          [i \in 1..10 |-> IF i <= 3 THEN TextCell(repr_list(<<CARD_A, CARD_B>>))
                                     ELSE TextCell(repr_list(<<CARD_A>>))],
          [i \in 1..10 |-> IF i <= 3 THEN Num(0) ELSE Num(1)])

\* frames with both required columns
ValidFrames == FullFrames(WinnerCells) \cup {ExampleFrame}

Frames ==
    ValidFrames
        \cup {Frame(c, <<>>, <<>>) : c \in (SUBSET REQUIRED_COLUMNS) \ {REQUIRED_COLUMNS}}

Args(sup, conf, lft, card) ==
    [min_support |-> sup, min_confidence |-> conf, min_lift |-> lft,
     min_cardinality |-> card[1], max_cardinality |-> card[2]]

DEFAULT_ARGS == Args(Frac(1, 100), Frac(4, 10), Frac(1, 1), <<2, 4>>)

THRESHOLDS ==
    {<<Frac(1, 10), Frac(4, 10), Frac(1, 1)>>,
     <<Frac(1, 2), Frac(4, 10), Frac(1, 1)>>,
     <<Frac(1, 10), Frac(1, 1), Frac(1, 1)>>,
     <<Frac(1, 10), Frac(4, 10), Frac(3, 2)>>}

\* <<min_cardinality, max_cardinality>>
CARDINALITIES == {<<2, 4>>, <<2, 2>>, <<1, 1>>, <<0, 0>>, <<3, 2>>, <<1, 3>>}

ArgChoices ==
    {Args(t[1], t[2], t[3], card) : t \in THRESHOLDS, card \in CARDINALITIES}
        \cup {DEFAULT_ARGS}

\* the configurations that differ in what the itemset mining reads
MiningArgChoices ==
    {a \in ArgChoices : /\ a.min_confidence = Frac(4, 10) /\ a.min_lift = Frac(1, 1)
                        /\ a.min_cardinality = 2}

IdleMiner ==
    /\ args = Unbound /\ raw_df = Unbound /\ trans_cards = Unbound
    /\ trans_with_outcome = Unbound /\ X = Unbound /\ itemsets_all = Unbound
    /\ rules = Unbound /\ files = <<>>
IdleDeck == cell = Unbound /\ parsed = Unbound /\ reparsed = Unbound /\ roundtrip = Unbound
IdleClean ==
    /\ df = Unbound /\ rows = Unbound /\ idx = 0 /\ player_num = 0
    /\ restructured_df = Unbound
IdleMerge == df_loss = Unbound /\ df_win = Unbound /\ df_master = Unbound

\* ---- a run of aaLosers.py
Init ==
    /\ pc = "load" /\ error = "none"
    /\ args \in ArgChoices
    /\ raw_df \in Frames
    /\ trans_cards = Unbound /\ trans_with_outcome = Unbound /\ X = Unbound
    /\ itemsets_all = Unbound /\ rules = Unbound /\ files = <<>>
    /\ IdleDeck /\ IdleClean /\ IdleMerge

Next ==
    \/ LoadAndValidate
    \/ ParseDecks
    \/ BuildTransactions
    \/ OneHotEncode
    \/ MineItemsets
    \/ EnsureSingletons
    \/ FilterBeforeRules

Spec == Init /\ [][Next]_vars

\* ---- lines 111-194 of aaLosers.py, entered with the state lines 29-101
\* build from the input
parse_all(frame) == Map(frame.player_deck, LAMBDA c : (CHOOSE r \in parse_deck(c) : TRUE).val)
transactions_of(frame) ==
    [i \in 1..Len(frame.winner) |-> transaction(parse_all(frame)[i], frame.winner[i])]

InitRules ==
    /\ pc = "association_rules" /\ error = "none"
    /\ args \in ArgChoices
    /\ raw_df \in ValidFrames
    /\ trans_cards = parse_all(raw_df)
    /\ trans_with_outcome = transactions_of(raw_df)
    /\ X = one_hot(trans_with_outcome)
    /\ \E mined \in {apriori(X, args.min_support, args.max_cardinality)} :
          itemsets_all \in ensure_singletons(mined, X)
    /\ rules = Unbound /\ files = <<>>
    /\ IdleDeck /\ IdleClean /\ IdleMerge

NextRules ==
    \/ GenerateRules
    \/ FilterConsequent
    \/ FilterAntecedentLen
    \/ FilterLift
    \/ WriteRules
    \/ WriteLoserItemsets

SpecRules == InitRules /\ [][NextRules]_vars

\* ---- parse_deck on its own: on a cell, on the list it returned, and on
\* the text str() gives for that list
MaxPlain == 3
MaxDeck == 2

PlainChars == {"a", ",", " ", "'"}
PlainTexts == SeqsUpTo(PlainChars, MaxPlain)
ListItems == {CARD_A, CARD_B, <<" ", "a">>}
Decks == SeqsUpTo(ListItems, MaxDeck)

Cells ==
    {NaN}
        \cup {ListCell(d) : d \in Decks}
        \cup {TextCell(t) : t \in PlainTexts}
        \cup {TextCell(<<"[">> \o t \o <<"]">>) : t \in PlainTexts}
        \cup {TextCell(repr_list(d)) : d \in Decks}
        \cup {TextCell(repr_tuple(d)) : d \in Decks}

InitDeck ==
    /\ pc = "call" /\ error = "none"
    /\ cell \in Cells
    /\ parsed = Unbound /\ reparsed = Unbound /\ roundtrip = Unbound
    /\ IdleMiner /\ IdleClean /\ IdleMerge

\* parse_deck(cell)
ParseCell ==
    /\ pc = "call"
    /\ parsed' \in parse_deck(cell)
    /\ IF parsed'.raised THEN fail(parsed'.exc) ELSE goto("returned")
    /\ UNCHANGED <<cell, reparsed, roundtrip, minerVars, cleanVars, mergeVars>>

\* parse_deck(parse_deck(cell))
ParseReturnedList ==
    /\ pc = "returned"
    /\ reparsed' \in parse_deck(ListCell(parsed.val))
    /\ goto("reparsed")
    /\ UNCHANGED <<cell, parsed, roundtrip, minerVars, cleanVars, mergeVars>>

\* parse_deck(str(parse_deck(cell)))
ParseStringified ==
    /\ pc = "reparsed"
    /\ roundtrip' \in parse_deck(TextCell(repr_list(parsed.val)))
    /\ goto("end")
    /\ UNCHANGED <<cell, parsed, reparsed, minerVars, cleanVars, mergeVars>>

NextDeck == ParseCell \/ ParseReturnedList \/ ParseStringified

SpecDeck == InitDeck /\ [][NextDeck]_vars

\* ---- ensure_singletons on a table from which the mining step left out
\* singleton rows
InitSingletons ==
    /\ pc = "ensure_singletons" /\ error = "none"
    /\ args \in MiningArgChoices
    /\ raw_df \in ValidFrames
    /\ trans_cards = parse_all(raw_df)
    /\ trans_with_outcome = transactions_of(raw_df)
    /\ X = one_hot(trans_with_outcome)
    /\ \E omitted \in SUBSET Range(X.columns) :
          itemsets_all = SelectSeq(apriori(X, args.min_support, args.max_cardinality),
                                   LAMBDA row : \A itm \in omitted : row.itemsets # {itm})
    /\ rules = Unbound /\ files = <<>>
    /\ IdleDeck /\ IdleClean /\ IdleMerge

NextSingletons == EnsureSingletons

SpecSingletons == InitSingletons /\ [][NextSingletons]_vars

-----------------------------------------------------------------------------
(* step2_clean.py: the restructurer                                        *)

INPUT_FOLDER == "files"
MERGED_CSV == "merged_restructured_battles.csv"
CARDS_TXT == "unique_cards.txt"

\* dict.get(key): the value, or None
get(d, key) == IF key \in DOMAIN d THEN d[key] ELSE NaN

\* ast.literal_eval of a cell of the raw table.  A deck cell is text or empty
\* (literal_eval of a float NaN is a ValueError).  A stats cell is kept as
\* what literal_eval makes of it: [malformed |-> TRUE] when it raises, else
\* [value |-> v] with v a dict (a function of its keys) or another literal.
eval_deck(c) == IF c = NaN THEN Raised("ValueError") ELSE literal_eval(c.text)
eval_stats(c) ==
    IF "malformed" \in DOMAIN c THEN Raised("ValueError") ELSE Returned("literal", c.value)

\* a dict literal is a record of its keys; any other literal has no .get
IsDict(v) == "list" \notin DOMAIN v

\* line 12: df.drop_duplicates(subset='battle_id') keeps the first row of
\* each battle_id
drop_duplicates(frame) ==
    LET keep == {i \in 1..Len(frame) : \A j \in 1..(i - 1) : frame[j].battle_id # frame[i].battle_id}
        F[i \in 0..Len(frame)] ==
            IF i = 0 THEN <<>>
            ELSE IF i \in keep THEN Append(F[i - 1], frame[i]) ELSE F[i - 1]
    IN F[Len(frame)]

\* a row built from player 1's cells whichever player is asked for
player_row_first_player(row, num) ==
    LET deck == eval_deck(row.player_1_deck)
        stats == eval_stats(row.player_1_stats)
    IN IF deck.raised THEN Raised(deck.exc)
       ELSE IF stats.raised THEN Raised(stats.exc)
       ELSE IF ~IsDict(stats.val) THEN Raised("AttributeError")
       ELSE [raised |-> FALSE,
             val |-> [battle_id |-> row.battle_id,
                      result |-> row.game_result,
                      player_num |-> num,
                      player_deck |-> deck.val,
                      avg_elixir |-> get(stats.val, "avg_elixir"),
                      four_card_cycle |-> get(stats.val, "four_card_cycle"),
                      elixir_leaked |-> get(stats.val, "elixir_leaked"),
                      tower_hp |-> get(stats.val, "tower_hp")]]

\* lines 20-31 for one player of one battle: the row appended, or an
\* exception (which line 32 catches)
player_row(row, num) ==
    LET deck == eval_deck(IF num = 1 THEN row.player_1_deck ELSE row.player_2_deck)
        stats == eval_stats(IF num = 1 THEN row.player_1_stats ELSE row.player_2_stats)
    IN IF deck.raised THEN Raised(deck.exc)
       ELSE IF stats.raised THEN Raised(stats.exc)
       ELSE IF ~IsDict(stats.val) THEN Raised("AttributeError")
       ELSE [raised |-> FALSE,
             val |-> [battle_id |-> row.battle_id,
                      result |-> row.game_result,
                      player_num |-> num,
                      player_deck |-> deck.val,
                      avg_elixir |-> get(stats.val, "avg_elixir"),
                      four_card_cycle |-> get(stats.val, "four_card_cycle"),
                      elixir_leaked |-> get(stats.val, "elixir_leaked"),
                      tower_hp |-> get(stats.val, "tower_hp")]]

\* a winner flag taken from the game result
winner_by_result(r) == IF r.result = "win" THEN 1 ELSE 0

\* line 39: 1 if x == 1 else 0
winner_of(r) == IF r.player_num = 1 THEN 1 ELSE 0

with_field(r, name, v) == [k \in DOMAIN r \cup {name} |-> IF k = name THEN v ELSE r[k]]

\* lines 38-39
add_winner(rs) == Map(rs, LAMBDA r : with_field(r, "winner", winner_of(r)))

\* the row numbers of the battle_id group of row i, ascending
RECURSIVE ascending(_)
ascending(S) ==
    IF S = {} THEN <<>>
    ELSE LET m == CHOOSE x \in S : \A y \in S : x <= y IN <<m>> \o ascending(S \ {m})

group_of(frame, i) == ascending({j \in 1..Len(frame) : frame[j].battle_id = frame[i].battle_id})

position(g, i) == CHOOSE k \in 1..Len(g) : g[k] = i

\* the group's values in their own order
not_reversed(g) == g

\* x.iloc[::-1].values: the group's values in reverse order
reversed(g) == [k \in 1..Len(g) |-> g[Len(g) + 1 - k]]

\* line 44: groupby('battle_id')['tower_hp'].transform(lambda x: x.iloc[::-1].values)
opp_tower_hp(frame) ==
    [i \in 1..Len(frame) |->
        LET g == group_of(frame, i)
        IN frame[reversed(g)[position(g, i)]].tower_hp]

\* subtraction of two cells; a missing operand gives a missing result
minus(a, b) == IF a = NaN \/ b = NaN THEN NaN ELSE Num(a.num - b.num)

\* line 44
add_opp_tower_hp(frame) ==
    [i \in 1..Len(frame) |-> with_field(frame[i], "opp_tower_hp", opp_tower_hp(frame)[i])]

\* line 45
add_dmg_dif(frame) ==
    Map(frame, LAMBDA r : with_field(r, "dmg_dif", minus(r.tower_hp, r.opp_tower_hp)))

\* lines 48-61: the cards of the decks of the written table, read back.  A
\* deck is written as str(deck) and parsed again; a deck that does not parse
\* is skipped.
deck_text(deck) == repr_list(deck)
unique_cards(frame) ==
    UNION {LET ev == literal_eval(deck_text(frame[i].player_deck))
           IN IF ev.raised THEN {} ELSE Range(ev.val) : i \in 1..Len(frame)}

\* lines 7-10: the rows of the CSV files of the folder, concatenated
LoadBattles ==
    /\ pc = "read_csv"
    /\ df' = files[INPUT_FOLDER]
    /\ goto("drop_duplicates")
    /\ UNCHANGED <<rows, idx, player_num, restructured_df, minerVars, deckVars, mergeVars>>

\* line 12
DropDuplicates ==
    /\ pc = "drop_duplicates"
    /\ df' = drop_duplicates(df)
    /\ rows' = <<>>
    /\ idx' = 1
    /\ player_num' = 1
    /\ goto(IF df' = <<>> THEN "frame" ELSE "loop")
    /\ UNCHANGED <<restructured_df, minerVars, deckVars, mergeVars>>

\* lines 17-34, one pass of the inner loop
RestructurePlayer ==
    /\ pc = "loop"
    /\ LET res == player_row(df[idx], player_num)
       IN rows' = IF res.raised THEN rows ELSE Append(rows, res.val)
    /\ IF player_num = 1
       THEN player_num' = 2 /\ idx' = idx /\ goto("loop")
       ELSE player_num' = 1 /\ idx' = idx + 1
            /\ goto(IF idx = Len(df) THEN "frame" ELSE "loop")
    /\ UNCHANGED <<df, restructured_df, minerVars, deckVars, mergeVars>>

\* lines 38-39: with no row the frame has no column, and ['player_num'] is a
\* KeyError
BuildFrame ==
    /\ pc = "frame"
    /\ IF rows = <<>>
       THEN fail("KeyError: 'player_num'") /\ UNCHANGED restructured_df
       ELSE restructured_df' = add_winner(rows) /\ goto("opp_tower_hp")
    /\ UNCHANGED <<df, rows, idx, player_num, minerVars, deckVars, mergeVars>>

\* line 44
OpponentTowerHp ==
    /\ pc = "opp_tower_hp"
    /\ restructured_df' = add_opp_tower_hp(restructured_df)
    /\ goto("dmg_dif")
    /\ UNCHANGED <<df, rows, idx, player_num, minerVars, deckVars, mergeVars>>

\* lines 45-46
DamageDifAndWrite ==
    /\ pc = "dmg_dif"
    /\ restructured_df' = add_dmg_dif(restructured_df)
    /\ files' = files @@ (MERGED_CSV :> restructured_df')
    /\ goto("unique_cards")
    /\ UNCHANGED <<df, rows, idx, player_num, args, raw_df, trans_cards, trans_with_outcome,
                   X, itemsets_all, rules, deckVars, mergeVars>>

\* lines 48-69
WriteUniqueCards ==
    /\ pc = "unique_cards"
    /\ files' = files @@ (CARDS_TXT :> sorted(unique_cards(files[MERGED_CSV])))
    /\ goto("done")
    /\ UNCHANGED <<cleanVars, args, raw_df, trans_cards, trans_with_outcome,
                   X, itemsets_all, rules, deckVars, mergeVars>>

\* ---- inputs of the restructurer
MaxBattles == 2

BATTLE_IDS == {"b1", "b2"}
GAME_RESULTS == {"win", "loss"}

GOOD_DECK == TextCell(repr_list(<<CARD_A, CARD_B>>))
BAD_DECK == TextCell(<<"[", "'", "a", "'", ",">>)
Stats(hp) == [value |-> [tower_hp |-> Num(hp), avg_elixir |-> Num(3)]]
STATS_NO_HP == [value |-> [avg_elixir |-> Num(3)]]
BAD_STATS == [malformed |-> TRUE]
LIST_STATS == [value |-> ListCell(<<CARD_A>>)]

\* <<deck cell, stats cell>> of player 1 and of player 2
Player1Cells ==
    {<<GOOD_DECK, Stats(100)>>, <<GOOD_DECK, Stats(80)>>, <<BAD_DECK, Stats(100)>>,
     <<GOOD_DECK, LIST_STATS>>}
Player2Cells ==
    {<<GOOD_DECK, Stats(80)>>, <<GOOD_DECK, STATS_NO_HP>>, <<NaN, Stats(100)>>,
     <<GOOD_DECK, BAD_STATS>>}

Battle(id, res, p1, p2) ==
    [battle_id |-> id, game_result |-> res,
     player_1_deck |-> p1[1], player_1_stats |-> p1[2],
     player_2_deck |-> p2[1], player_2_stats |-> p2[2]]

Battles == {Battle(id, res, p1, p2) :
               id \in BATTLE_IDS, res \in GAME_RESULTS, p1 \in Player1Cells, p2 \in Player2Cells}

InitClean ==
    /\ pc = "read_csv" /\ error = "none"
    /\ \E input \in SeqsUpTo(Battles, MaxBattles) : files = (INPUT_FOLDER :> input)
    /\ df = Unbound /\ rows = Unbound /\ idx = 0 /\ player_num = 0
    /\ restructured_df = Unbound
    /\ args = Unbound /\ raw_df = Unbound /\ trans_cards = Unbound
    /\ trans_with_outcome = Unbound /\ X = Unbound /\ itemsets_all = Unbound
    /\ rules = Unbound
    /\ IdleDeck /\ IdleMerge

NextClean ==
    \/ LoadBattles
    \/ DropDuplicates
    \/ RestructurePlayer
    \/ BuildFrame
    \/ OpponentTowerHp
    \/ DamageDifAndWrite
    \/ WriteUniqueCards

SpecClean == InitClean /\ [][NextClean]_vars

-----------------------------------------------------------------------------
(* merge.py: the merger                                                    *)

FILE_LOSS == "outputs/rules_predicting_LOSS.csv"
FILE_WIN == "outputs/rules_predicting_WIN.csv"
MASTER_CSV == "outputs/master_rules.csv"

\* A table is its column labels, in order, and its rows, each a function of
\* the labels.  Cells are numbers or missing.
Table(cols, rws) == [columns |-> cols, rows |-> rws]

\* the labels of t2 that t1 lacks, in t2's order
new_columns(t1, t2) == SelectSeq(t2.columns, LAMBDA c : c \notin Range(t1.columns))

\* a row of a source table laid out over the columns cols
reindex(r, cols) == [c \in Range(cols) |-> IF c \in DOMAIN r THEN r[c] ELSE NaN]

\* a concatenation that keeps only the columns both tables have
concat_inner(t1, t2) ==
    LET cols == SelectSeq(t1.columns, LAMBDA c : c \in Range(t2.columns))
    IN Table(cols, Map(t1.rows \o t2.rows, LAMBDA r : reindex(r, cols)))

\* line 15: pd.concat([t1, t2], ignore_index=True)
concat(t1, t2) ==
    LET cols == t1.columns \o new_columns(t1, t2)
    IN Table(cols, Map(t1.rows \o t2.rows, LAMBDA r : reindex(r, cols)))

\* lines 11-12
ReadRuleFiles ==
    /\ pc = "read_rules"
    /\ df_loss' = files[FILE_LOSS]
    /\ df_win' = files[FILE_WIN]
    /\ goto("concat")
    /\ UNCHANGED <<df_master, minerVars, deckVars, cleanVars>>

\* line 15
ConcatRules ==
    /\ pc = "concat"
    /\ df_master' = concat(df_loss, df_win)
    /\ goto("write_master")
    /\ UNCHANGED <<df_loss, df_win, minerVars, deckVars, cleanVars>>

\* lines 17-20
WriteMaster ==
    /\ pc = "write_master"
    /\ files' = files @@ (MASTER_CSV :> df_master)
    /\ goto("done")
    /\ UNCHANGED <<mergeVars, args, raw_df, trans_cards, trans_with_outcome, X, itemsets_all,
                   rules, deckVars, cleanVars>>

\* ---- inputs of the merger
MaxRuleRows == 2

COLUMN_LISTS == {<<"A", "B">>, <<"B", "C">>, <<"B", "A">>}
CELL_VALUES == {Num(1), NaN}

TablesOver(cols) ==
    {Table(cols, rws) : rws \in SeqsUpTo([Range(cols) -> CELL_VALUES], MaxRuleRows)}

\* the tables of the worked example: columns {A, B, C} and {B, C, D}
EXAMPLE_LOSS == Table(<<"A", "B", "C">>, <<[c \in {"A", "B", "C"} |-> Num(1)]>>)
EXAMPLE_WIN == Table(<<"B", "C", "D">>, <<[c \in {"B", "C", "D"} |-> Num(2)]>>)

RuleTables == UNION {TablesOver(cols) : cols \in COLUMN_LISTS}

InitMerge ==
    /\ pc = "read_rules" /\ error = "none"
    /\ \E t1 \in RuleTables \cup {EXAMPLE_LOSS}, t2 \in RuleTables \cup {EXAMPLE_WIN} :
          files = (FILE_LOSS :> t1) @@ (FILE_WIN :> t2)
    /\ df_loss = Unbound /\ df_win = Unbound /\ df_master = Unbound
    /\ args = Unbound /\ raw_df = Unbound /\ trans_cards = Unbound
    /\ trans_with_outcome = Unbound /\ X = Unbound /\ itemsets_all = Unbound
    /\ rules = Unbound
    /\ IdleDeck /\ IdleClean

NextMerge == ReadRuleFiles \/ ConcatRules \/ WriteMaster

SpecMerge == InitMerge /\ [][NextMerge]_vars

-----------------------------------------------------------------------------
(* Properties of the rule miner                                            *)

HasRequiredColumns == REQUIRED_COLUMNS \subseteq raw_df.columns

\* C1: a run fails only when player_deck or winner is missing; with both
\* columns it reaches the end and has written both CSV files.
C1_FailsOnlyOnMissingColumns ==
    /\ pc = "failed" => ~HasRequiredColumns
    /\ pc = "done" => {RULES_CSV, ITEMSETS_CSV} \subseteq DOMAIN files

\* C2: every row written to rules_predicting_LOSS.csv has the consequent
\* OUTCOME=LOSS and nothing else.
C2_OnlyLossConsequent ==
    RULES_CSV \in DOMAIN files =>
        \A i \in 1..Len(files[RULES_CSV]) : files[RULES_CSV][i].consequents_str = OUTCOME_LOSS

\* a run wrote a rule although line 111 had produced rules with other consequents
C2_Witness ==
    /\ pc = "done"
    /\ Len(files[RULES_CSV]) >= 1
    /\ \E r \in association_rules(itemsets_all, args.min_confidence).val :
          r.consequents # {OUTCOME_LOSS}

\* the number of transactions that contain every item of s
TransCount(s) ==
    Cardinality({i \in 1..Len(trans_with_outcome) : s \subseteq Range(trans_with_outcome[i])})

Cards == UNION {Range(trans_with_outcome[i]) : i \in 1..Len(trans_with_outcome)}
             \ {OUTCOME_WIN, OUTCOME_LOSS}

\* the card sets A whose rule A => {OUTCOME=LOSS} the configuration asks for
Qualifies(A) ==
    LET n == Len(trans_with_outcome)
        both == TransCount(A \cup {OUTCOME_LOSS})
    IN /\ A # {}
       /\ FracGe(Frac(both, n), args.min_support)
       /\ Cardinality(A) + 1 >= args.min_cardinality
       /\ Cardinality(A) + 1 <= args.max_cardinality
       /\ both > 0
       /\ FracGe(Frac(both, TransCount(A)), args.min_confidence)
       /\ FracGe(Frac(both * n, TransCount(A) * TransCount({OUTCOME_LOSS})), args.min_lift)

Emitted(A) ==
    /\ RULES_CSV \in DOMAIN files
    /\ \E i \in 1..Len(files[RULES_CSV]) :
          LET row == files[RULES_CSV][i]
          IN /\ row.antecedents_str = items_str(A)
             /\ row.consequents_str = OUTCOME_LOSS
             /\ FracEq(row.support, Frac(TransCount(A \cup {OUTCOME_LOSS}), Len(trans_with_outcome)))
             /\ FracEq(row.confidence, Frac(TransCount(A \cup {OUTCOME_LOSS}), TransCount(A)))

\* C3: when the run has ended, rules_predicting_LOSS.csv holds the rule
\* A => {OUTCOME=LOSS}, with its support and confidence, for every card set A
\* that meets the thresholds and the cardinality range.
C3_EmitsQualifyingRules ==
    (pc \in {"done", "failed"} /\ HasRequiredColumns) =>
        \A A \in SUBSET Cards : Qualifies(A) => Emitted(A)

\* C4: ensure_singletons leaves the rows of the table as they are and appends
\* one singleton row for each item that had none, with the item's row count
\* in the one-hot matrix as support; afterwards every item of an itemset of
\* two or more items has its singleton row.
C4_SingletonsBackfilled ==
    [][pc = "ensure_singletons" =>
         LET old == itemsets_all
             new == itemsets_all'
             added == {j \in 1..Len(new) : j > Len(old)}
         IN /\ Len(new) >= Len(old)
            /\ SubSeq(new, 1, Len(old)) = old
            /\ \A i \in 1..Len(new) :
                  Cardinality(new[i].itemsets) >= 2 =>
                      \A itm \in new[i].itemsets : \E j \in 1..Len(new) : new[j].itemsets = {itm}
            /\ \A j \in added :
                  /\ Cardinality(new[j].itemsets) = 1
                  /\ \A i \in 1..Len(old) : old[i].itemsets # new[j].itemsets
                  /\ \A k \in added : new[k].itemsets = new[j].itemsets => k = j
                  /\ new[j].support = TransCount(new[j].itemsets)
    ]_vars

\* ensure_singletons has appended the singleton of an item of a larger itemset
C4_Witness ==
    /\ pc = "line_109"
    /\ \E i, j \in 1..Len(itemsets_all) :
          /\ i < j
          /\ Cardinality(itemsets_all[i].itemsets) >= 2
          /\ Cardinality(itemsets_all[j].itemsets) = 1
          /\ itemsets_all[j].itemsets \subseteq itemsets_all[i].itemsets

AfterAntecedentFilter == pc \in {"min_lift", "write_rules", "losers", "done"}

-----------------------------------------------------------------------------
(* Properties of parse_deck                                                *)

\* C9: parse_deck returns a list for every cell without raising; on the list
\* it returned it gives that list again, and on the text of that list it
\* gives the same items.
C9_IdempotentAndTotal ==
    /\ pc # "call" => ~parsed.raised
    /\ pc \in {"reparsed", "end"} => ~reparsed.raised /\ reparsed.val = parsed.val
    /\ pc = "end" => ~roundtrip.raised /\ roundtrip.val = parsed.val

-----------------------------------------------------------------------------
(* Properties of the restructurer                                          *)

Input == files[INPUT_FOLDER]
NoDuplicateBattles == \A i, j \in 1..Len(Input) : Input[i].battle_id = Input[j].battle_id => i = j

\* the player-battle rows written, none when the run ended before the write
EmittedRows == IF MERGED_CSV \in DOMAIN files THEN files[MERGED_CSV] ELSE <<>>
CleanEnded == pc \in {"done", "failed"}

Parses(battle, num) ==
    /\ ~eval_deck(IF num = 1 THEN battle.player_1_deck ELSE battle.player_2_deck).raised
    /\ LET st == eval_stats(IF num = 1 THEN battle.player_1_stats ELSE battle.player_2_stats)
       IN ~st.raised /\ IsDict(st.val)

BothParse == {i \in 1..Len(Input) : Parses(Input[i], 1) /\ Parses(Input[i], 2)}
OneParses == {i \in 1..Len(Input) : Parses(Input[i], 1) # Parses(Input[i], 2)}

\* C6 as stated: without duplicate battle_id the restructurer emits exactly
\* 2 x (battles with both players parseable) rows.
C6_TwoRowsPerParsedBattle ==
    (CleanEnded /\ NoDuplicateBattles) => Len(EmittedRows) = 2 * Cardinality(BothParse)

\* C6 amended: without duplicate battle_id the restructurer emits one row
\* for each player whose deck and stats parse: two for a battle with both
\* players parseable, one for a battle with exactly one.
C6_OneRowPerParsedPlayer ==
    (CleanEnded /\ NoDuplicateBattles) =>
        /\ Len(EmittedRows) = 2 * Cardinality(BothParse) + Cardinality(OneParses)
        /\ \A i \in 1..Len(Input) : \A num \in {1, 2} :
              Parses(Input[i], num) <=>
                  \E k \in 1..Len(EmittedRows) :
                      /\ EmittedRows[k].battle_id = Input[i].battle_id
                      /\ EmittedRows[k].player_num = num

\* a run over distinct battles, one of them with a single parseable player,
\* wrote its table
C6_Witness ==
    /\ pc = "done"
    /\ NoDuplicateBattles
    /\ OneParses # {}
    /\ BothParse # {}

SameBattle(i, j) == i # j /\ EmittedRows[i].battle_id = EmittedRows[j].battle_id

\* C7: when both rows of a battle are emitted, each row's opp_tower_hp is the
\* other row's tower_hp and its dmg_dif is its tower_hp minus its
\* opp_tower_hp, so the two dmg_dif are negations of each other.
C7_OpponentHpSwapped ==
    \A i, j \in 1..Len(EmittedRows) :
        SameBattle(i, j) =>
            /\ EmittedRows[i].opp_tower_hp = EmittedRows[j].tower_hp
            /\ EmittedRows[i].dmg_dif = minus(EmittedRows[i].tower_hp, EmittedRows[j].tower_hp)
            /\ EmittedRows[i].dmg_dif # NaN =>
                  EmittedRows[i].dmg_dif.num = 0 - EmittedRows[j].dmg_dif.num

\* tower HPs [100, 80] gave opp_tower_hp [80, 100] and dmg_dif [20, -20], in
\* a table that holds rows of another battle as well
C7_Witness ==
    /\ pc = "done"
    /\ \E i, j, k \in 1..Len(EmittedRows) :
          /\ SameBattle(i, j)
          /\ EmittedRows[k].battle_id # EmittedRows[i].battle_id
          /\ EmittedRows[i].player_num = 1
          /\ EmittedRows[i].tower_hp = Num(100) /\ EmittedRows[j].tower_hp = Num(80)
          /\ EmittedRows[i].opp_tower_hp = Num(80) /\ EmittedRows[j].opp_tower_hp = Num(100)
          /\ EmittedRows[i].dmg_dif = Num(20) /\ EmittedRows[j].dmg_dif = Num(0 - 20)

\* C8: in every emitted row winner is 0 or 1, and it is 1 exactly when
\* player_num is 1.
C8_WinnerByPlayerNum ==
    \A k \in 1..Len(EmittedRows) :
        /\ EmittedRows[k].winner \in {0, 1}
        /\ EmittedRows[k].winner = 1 <=> EmittedRows[k].player_num = 1

\* two emitted rows of player 1 with different game results, and a row of
\* player 2 whose game result is "win"
C8_Witness ==
    /\ pc = "done"
    /\ \E i, j, k \in 1..Len(EmittedRows) :
          /\ EmittedRows[i].player_num = 1 /\ EmittedRows[j].player_num = 1
          /\ EmittedRows[i].result # EmittedRows[j].result
          /\ EmittedRows[k].player_num = 2 /\ EmittedRows[k].result = "win"

-----------------------------------------------------------------------------
(* Properties of the merger                                                *)

\* C10: the master table has the union of the columns of the two inputs and
\* len(loss) + len(win) rows, the loss rows first, each cell equal to its
\* input value, or missing where the row's source has no such column.
C10_ConcatKeepsAllRows ==
    pc = "done" =>
        LET loss == files[FILE_LOSS]
            win == files[FILE_WIN]
            out == files[MASTER_CSV]
            source(k) == IF k <= Len(loss.rows) THEN loss.rows[k] ELSE win.rows[k - Len(loss.rows)]
        IN /\ Range(out.columns) = Range(loss.columns) \cup Range(win.columns)
           /\ Len(out.columns) = Cardinality(Range(out.columns))
           /\ Len(out.rows) = Len(loss.rows) + Len(win.rows)
           /\ \A k \in 1..Len(out.rows) :
                 /\ DOMAIN out.rows[k] = Range(out.columns)
                 /\ \A c \in Range(out.columns) :
                       out.rows[k][c] = IF c \in DOMAIN source(k) THEN source(k)[c] ELSE NaN

\* the master file was written from two non-empty tables whose columns
\* differ, two of whose rows are equal
C10_Witness ==
    /\ pc = "done"
    /\ Range(files[FILE_LOSS].columns) # Range(files[FILE_WIN].columns)
    /\ files[FILE_LOSS].rows # <<>> /\ files[FILE_WIN].rows # <<>>
    /\ \E i, j \in 1..Len(files[MASTER_CSV].rows) :
          i # j /\ files[MASTER_CSV].rows[i] = files[MASTER_CSV].rows[j]

====
